---- MODULE Spec2Model ----
(***************************************************************************)
(* Brightspace x Amplify integration layer.                                *)
(*                                                                         *)
(*  - the OAuth token manager and the LMS gateway of the two LMS clients   *)
(*    (BrightspaceClient, BrightspaceContentCreator) and the HTTP          *)
(*    endpoint /api/create-announcement             -> specification Spec  *)
(*  - getAuthorizationUrl as a function of its input -> SpecUrl            *)
(*  - the multipart body of createNewsItem           -> SpecNews           *)
(*  - AmplifyClient.processFiles                     -> SpecAmplify        *)
(*                                                                         *)
(* One action is one turn of the Node event loop: the synchronous code up  *)
(* to the next await on a network answer or a timer.                       *)
(***************************************************************************)
EXTENDS Integers, Sequences, FiniteSets, TLC

VARIABLES
  impl,      \* the LMS client class the server was built with
  now,       \* the clock (Date.now()), in units of one token lifetime step
  token,     \* [accessToken, refreshToken, tokenExpiry] of the LMS client
  call,      \* per caller: the LMS client call in progress / last finished
  urlIn,     \* getAuthorizationUrl: the call's input
  urlOut,    \* getAuthorizationUrl: the returned URL's query string
  newsIn,    \* createNewsItem: the announcement payload and the clock
  newsOut,   \* createNewsItem: the request as captured on the wire
  amp,       \* AmplifyClient and its processFiles run
  srv        \* EnhancedAmplifyServer: a POST /api/process-files request

lmsVars  == <<impl, now, token, call>>
urlVars  == <<urlIn, urlOut>>
newsVars == <<newsIn, newsOut>>
ampVars  == <<amp>>
srvVars  == <<srv>>
vars     == <<impl, now, token, call, urlIn, urlOut, newsIn, newsOut, amp, srv>>

nonLmsVars  == <<urlIn, urlOut, newsIn, newsOut, amp, srv>>
nonUrlVars  == <<impl, now, token, call, newsIn, newsOut, amp, srv>>
nonNewsVars == <<impl, now, token, call, urlIn, urlOut, amp, srv>>
nonAmpVars  == <<impl, now, token, call, urlIn, urlOut, newsIn, newsOut, srv>>
nonSrvVars  == <<impl, now, token, call, urlIn, urlOut, newsIn, newsOut, amp>>

(***************************************************************************)
(* Bounds                                                                  *)
(***************************************************************************)
MaxTime      == 2    \* the clock stops advancing here
MaxExpiresIn == 2    \* expires_in answered by the token endpoint: 1..MaxExpiresIn
MaxCallers   == 1    \* concurrent callers of the LMS client

Callers == 1..MaxCallers

(***************************************************************************)
(* LMS clients: token state                                                *)
(***************************************************************************)
Null     == 0     \* JavaScript null / undefined for a token
NoExpiry == -1    \* tokenExpiry === null

Impls == {"BrightspaceClient", "BrightspaceContentCreator"}

AccessTokens  == {1, 2}        \* access_token values the token endpoint hands out
RefreshTokens == {Null, 1}     \* refresh_token is optional in a token answer
TokenStatuses == {200, 400}    \* token endpoint: 2xx / non-2xx
LmsStatuses   == {200, 403, 404, 500}

\* constructor: no token held
constructor == [accessToken |-> Null, refreshToken |-> Null, tokenExpiry |-> NoExpiry]

\* BrightspaceClient.isAuthenticated:
\*   !!accessToken && (!tokenExpiry || new Date() < tokenExpiry)
isAuthenticated_inclusive(t, n) ==
  IF t.accessToken # Null /\ (t.tokenExpiry = NoExpiry \/ n <= t.tokenExpiry)
  THEN "true" ELSE "false"

isAuthenticated(t, n) ==
  IF t.accessToken # Null /\ (t.tokenExpiry = NoExpiry \/ n < t.tokenExpiry)
  THEN "true" ELSE "false"

\* BrightspaceContentCreator.isAuthenticated:
\*   accessToken && tokenExpiry && new Date() < tokenExpiry
\* the value of the && chain: null while a field is null, else the comparison
creatorIsAuthenticated(t, n) ==
  IF t.accessToken = Null THEN "null"
  ELSE IF t.tokenExpiry = NoExpiry THEN "null"
  ELSE IF n < t.tokenExpiry THEN "true" ELSE "false"

\* JavaScript truthiness of the value isAuthenticated() returns
Truthy(v) == v = "true"

IsAuth(i, t, n) ==
  IF i = "BrightspaceClient" THEN isAuthenticated(t, n)
  ELSE creatorIsAuthenticated(t, n)

(***************************************************************************)
(* A call of the LMS client                                                *)
(***************************************************************************)
IdleCall ==
  [ pc         |-> "idle",    \* idle | exchanging | refreshing | requesting
    op         |-> "none",    \* the client method called
    via        |-> "direct",  \* direct | http (through an HTTP endpoint)
    endpoint   |-> "none",    \* the route of the HTTP request
    tokenLive  |-> FALSE,     \* an unexpired token was held when the request came in
    tokenPosts |-> 0,         \* POSTs to the token endpoint made by this call
    checked    |-> FALSE,     \* the token validity check ran in this call
    sent       |-> 0,         \* LMS API requests sent by this call
    wire       |-> <<>>,      \* uploadFileToCourse: its requests, as sent
    bearer     |-> Null,      \* the token the request carries
    outcome    |-> "none",    \* none | pending | returned | threw
    error      |-> "none",    \* what was thrown
    status     |-> 0,         \* HTTP status of the last upstream answer
    httpStatus |-> 0 ]        \* status of the JSON answer to the HTTP caller

Returned(c) == [c EXCEPT !.pc = "idle", !.outcome = "returned"]
Threw(c, e) == [c EXCEPT !.pc = "idle", !.outcome = "threw", !.error = e]

Answered(c, status) == [c EXCEPT !.status = status]

Begin(o, v) == [IdleCall EXCEPT !.op = o, !.via = v, !.outcome = "pending"]

\* axios(config) with Authorization: Bearer ${this.accessToken}
SendRequest(c, t) ==
  [c EXCEPT !.pc = "requesting", !.sent = @ + 1, !.bearer = t.accessToken]

(***************************************************************************)
(* exchangeCodeForToken (both classes)                                     *)
(***************************************************************************)
exchangeCodeForToken(p) ==
  /\ call[p].pc = "idle"
  /\ call' = [call EXCEPT ![p] =
                [Begin("exchangeCodeForToken", "direct") EXCEPT
                   !.pc = "exchanging", !.tokenPosts = 1]]
  /\ UNCHANGED <<impl, now, token>> /\ UNCHANGED nonLmsVars

\* the token endpoint answered 2xx: the three fields are stored
storeTokens(t, n, at, rt, ei) ==
  [accessToken |-> at, refreshToken |-> rt, tokenExpiry |-> n + ei]

\* the token endpoint answered non-2xx: axios rejects, the error is rethrown
exchangeCatch_swallow(c) == Returned(c)

exchangeCatch(c) == Threw(c, "TokenEndpointError")

exchangeResponse(p) ==
  /\ call[p].pc = "exchanging"
  /\ \E status \in TokenStatuses, at \in AccessTokens, rt \in RefreshTokens,
        ei \in 1..MaxExpiresIn :
       IF status = 200
       THEN /\ token' = storeTokens(token, now, at, rt, ei)
            /\ call' = [call EXCEPT ![p] = Returned(Answered(@, status))]
       ELSE /\ token' = token
            /\ call' = [call EXCEPT ![p] = exchangeCatch(Answered(@, status))]
  /\ UNCHANGED <<impl, now>> /\ UNCHANGED nonLmsVars

(***************************************************************************)
(* BrightspaceClient: ensureValidToken, refreshAccessToken, apiCall        *)
(***************************************************************************)
ClientOps == {"getCurrentUser", "getCourses", "getCourse", "getCourseContent"}

\* a call that finds the token expired while a refresh is under way does not
\* start one of its own
ensureValidToken_single(t, n) ==
  IF t.accessToken = Null THEN "NoAccessToken"
  ELSE IF t.tokenExpiry # NoExpiry /\ n >= t.tokenExpiry
  THEN IF \E q \in DOMAIN call : call[q].pc = "refreshing" THEN "valid" ELSE "refresh"
  ELSE "valid"

\* ensureValidToken: what the check decides
ensureValidToken(t, n) ==
  IF t.accessToken = Null THEN "NoAccessToken"
  ELSE IF t.tokenExpiry # NoExpiry /\ n >= t.tokenExpiry THEN "refresh"
  ELSE "valid"

\* refreshAccessToken: the guard before the POST
refreshAccessToken_unguarded(t) == "post"

refreshAccessToken(t) ==
  IF t.refreshToken = Null THEN "NoRefreshToken" ELSE "post"

\* refreshAccessToken failed before any POST: the error leaves apiCall
refreshFailed(c, t) == Threw(c, "NoRefreshToken")

apiCall(p, o) ==
  /\ impl = "BrightspaceClient"
  /\ call[p].pc = "idle"
  /\ LET c == [Begin(o, "direct") EXCEPT !.checked = TRUE]
         v == ensureValidToken(token, now)
     IN  call' = [call EXCEPT ![p] =
           CASE v = "NoAccessToken" -> Threw(c, "NoAccessToken")
             [] v = "valid"         -> SendRequest(c, token)
             [] v = "refresh"       ->
                  IF refreshAccessToken(token) = "post"
                  THEN [c EXCEPT !.pc = "refreshing", !.tokenPosts = 1]
                  ELSE refreshFailed(c, token)]
  /\ UNCHANGED <<impl, now, token>> /\ UNCHANGED nonLmsVars

\* the refresh stores the answer's refresh_token as well (absent: undefined)
storeRefreshed_all(t, n, at, ei) ==
  [accessToken |-> at, refreshToken |-> Null, tokenExpiry |-> n + ei]

\* refreshAccessToken after a 2xx answer: accessToken and tokenExpiry are set
storeRefreshed(t, n, at, ei) ==
  [t EXCEPT !.accessToken = at, !.tokenExpiry = n + ei]

\* the answer to the refresh POST; on 2xx apiCall goes on to send the request
refreshResponse(p) ==
  /\ call[p].pc = "refreshing"
  /\ \E status \in TokenStatuses, at \in AccessTokens, ei \in 1..MaxExpiresIn :
       IF status = 200
       THEN /\ token' = storeRefreshed(token, now, at, ei)
            /\ call' = [call EXCEPT ![p] = SendRequest(Answered(@, status), token')]
       ELSE /\ token' = token
            /\ call' = [call EXCEPT ![p] =
                          Threw(Answered(@, status), "TokenEndpointError")]
  /\ UNCHANGED <<impl, now>> /\ UNCHANGED nonLmsVars

(***************************************************************************)
(* BrightspaceContentCreator: getAuthHeaders and the gateway methods       *)
(***************************************************************************)
CreatorOps == {"getCurrentUser", "getCourses", "createDiscussionForum", "createSurvey"}

\* getAuthHeaders: throws unless isAuthenticated()
getAuthHeaders(t, n) ==
  IF Truthy(creatorIsAuthenticated(t, n)) THEN "headers" ELSE "NotAuthenticated"

\* the methods that build their headers with getAuthHeaders()
creatorRequest(c, t, n) ==
  IF getAuthHeaders(t, n) = "headers"
  THEN SendRequest([c EXCEPT !.checked = TRUE], t)
  ELSE Threw([c EXCEPT !.checked = TRUE], "NotAuthenticated")

\* createNewsItem builds its Authorization header from this.accessToken itself
createNewsItemRequest(c, t, n) == SendRequest(c, t)

creatorCall(p, o) ==
  /\ impl = "BrightspaceContentCreator"
  /\ call[p].pc = "idle"
  /\ call' = [call EXCEPT ![p] = creatorRequest(Begin(o, "direct"), token, now)]
  /\ UNCHANGED <<impl, now, token>> /\ UNCHANGED nonLmsVars

createNewsItem(p) ==
  /\ impl = "BrightspaceContentCreator"
  /\ call[p].pc = "idle"
  /\ call' = [call EXCEPT ![p] =
                createNewsItemRequest(Begin("createNewsItem", "direct"), token, now)]
  /\ UNCHANGED <<impl, now, token>> /\ UNCHANGED nonLmsVars

\* uploadFileToCourse, step 1: POST .../managefiles/upload/ with getAuthHeaders()
uploadFileToCourse(c, t, n) ==
  LET r == creatorRequest(c, t, n)
  IN  IF r.pc = "requesting" THEN [r EXCEPT !.wire = <<"POST upload">>] ELSE r

\* step 2: PUT the bytes to the upload location; the request has a
\* Content-Type and a Content-Length header and no Authorization header
uploadPut(c) ==
  [c EXCEPT !.pc = "requesting", !.sent = @ + 1, !.bearer = Null,
            !.wire = Append(@, "PUT")]

\* step 3: POST .../finalize/ with getAuthHeaders()
uploadFinalize(c, t, n) ==
  IF getAuthHeaders(t, n) = "headers"
  THEN [SendRequest(c, t) EXCEPT !.wire = Append(@, "POST finalize")]
  ELSE Threw(c, "NotAuthenticated")

\* an HTTP request to a route whose handler calls gateway method o
Request(route, o, t, n) ==
  [Begin(o, "http") EXCEPT
     !.endpoint  = route,
     !.tokenLive = t.accessToken # Null /\ t.tokenExpiry # NoExpiry /\ n < t.tokenExpiry]

\* res.status(code).json(...) before any gateway call
Reject(c, code) == [c EXCEPT !.pc = "idle", !.outcome = "none", !.httpStatus = code]

\* POST /api/create-announcement, up to the await on createNewsItem
postCreateAnnouncement(p, hasCourseId) ==
  /\ impl = "BrightspaceContentCreator"
  /\ call[p].pc = "idle"
  /\ LET c == Request("/api/create-announcement", "createNewsItem", token, now)
     IN  call' = [call EXCEPT ![p] =
           IF ~Truthy(creatorIsAuthenticated(token, now))
           THEN [c EXCEPT !.pc = "idle", !.outcome = "none", !.httpStatus = 401]
           ELSE IF ~hasCourseId
           THEN [c EXCEPT !.pc = "idle", !.outcome = "none", !.httpStatus = 400]
           ELSE createNewsItemRequest(c, token, now)]
  /\ UNCHANGED <<impl, now, token>> /\ UNCHANGED nonLmsVars

(***************************************************************************)
(* The LMS answers the request of a call                                   *)
(***************************************************************************)
\* catch (error) { console.error(...); throw error; }
gatewayCatch(c, status) ==
  Threw(c, CASE status = 403 -> "Http403"
             [] status = 404 -> "Http404"
             [] OTHER        -> "Http500")

\* the endpoint's try/catch around the gateway call: 500, but
\* /api/upload-file-to-brightspace answers error.response?.status || 500
endpointAnswer(c) ==
  IF c.via # "http" \/ c.outcome = "pending" THEN c
  ELSE IF c.outcome = "returned" THEN [c EXCEPT !.httpStatus = 200]
  ELSE IF /\ c.endpoint = "/api/upload-file-to-brightspace"
          /\ c.error \in {"Http403", "Http404", "Http500"}
  THEN [c EXCEPT !.httpStatus = c.status]
  ELSE [c EXCEPT !.httpStatus = 500]

\* a failed step is followed by the next one all the same
uploadFileToCourseAnswer_goOn(c, status, t, n) ==
  LET k == Answered(c, status)
  IN  CASE Len(c.wire) = 1 -> uploadPut(k)
        [] Len(c.wire) = 2 -> uploadFinalize(k, t, n)
        [] OTHER           -> IF status = 200 THEN Returned(k) ELSE gatewayCatch(k, status)

\* uploadFileToCourse after the await of a step: a rejected request goes to
\* the catch, which rethrows; otherwise the next step, or the return
uploadFileToCourseAnswer(c, status, t, n) ==
  LET k == Answered(c, status)
  IN  IF status # 200 THEN gatewayCatch(k, status)
      ELSE CASE Len(c.wire) = 1 -> uploadPut(k)
             [] Len(c.wire) = 2 -> uploadFinalize(k, t, n)
             [] OTHER           -> Returned(k)

lmsResponse(p) ==
  /\ call[p].pc = "requesting"
  /\ \E status \in LmsStatuses :
       call' = [call EXCEPT ![p] =
                  endpointAnswer(
                    IF call[p].op = "uploadFileToCourse"
                    THEN uploadFileToCourseAnswer(@, status, token, now)
                    ELSE IF status = 200 THEN Returned(Answered(@, status))
                    ELSE gatewayCatch(Answered(@, status), status))]
  /\ UNCHANGED <<impl, now, token>> /\ UNCHANGED nonLmsVars

Tick ==
  /\ now < MaxTime
  /\ now' = now + 1
  /\ UNCHANGED <<impl, token, call>> /\ UNCHANGED nonLmsVars

(***************************************************************************)
(* The other HTTP endpoints in front of the LMS clients                    *)
(*   EnhancedAmplifyServer (BrightspaceClient):                            *)
(*     GET /api/courses, POST /api/publish-to-brightspace                  *)
(*   App.js (BrightspaceContentCreator):                                   *)
(*     GET /api/courses, POST /api/create-discussion, /api/create-survey,  *)
(*     /api/upload-file-to-brightspace                                     *)
(***************************************************************************)
\* the gateway method a route's handler calls first
Routes ==
  [ BrightspaceClient |->
      [ route : {"/api/courses"}, op : {"getCourses"}, validated : {FALSE} ] \cup
      [ route : {"/api/publish-to-brightspace"}, op : {"getCourse"}, validated : {TRUE} ],
    BrightspaceContentCreator |->
      [ route : {"/api/courses"}, op : {"getCourses"}, validated : {FALSE} ] \cup
      [ route : {"/api/create-discussion"}, op : {"createDiscussionForum"}, validated : {TRUE} ] \cup
      [ route : {"/api/create-survey"}, op : {"createSurvey"}, validated : {TRUE} ] \cup
      [ route : {"/api/upload-file-to-brightspace"}, op : {"uploadFileToCourse"},
        validated : {TRUE} ] ]

\* the handler goes on whatever isAuthenticated() says
endpointGuard_open(i, t, n) == "go"

\* if (!brightspaceClient.isAuthenticated()) return res.status(401).json(...)
endpointGuard(i, t, n) == IF Truthy(IsAuth(i, t, n)) THEN "go" ELSE "401"

\* the gateway call of the handler: apiCall of BrightspaceClient, or a
\* BrightspaceContentCreator method that builds its headers with getAuthHeaders()
gatewayCall(i, c, t, n) ==
  IF i = "BrightspaceContentCreator"
  THEN IF c.op = "uploadFileToCourse" THEN uploadFileToCourse(c, t, n)
       ELSE creatorRequest(c, t, n)
  ELSE LET k == [c EXCEPT !.checked = TRUE]
           v == ensureValidToken(t, n)
       IN  CASE v = "NoAccessToken" -> Threw(k, "NoAccessToken")
             [] v = "valid"         -> SendRequest(k, t)
             [] v = "refresh"       ->
                  IF refreshAccessToken(t) = "post"
                  THEN [k EXCEPT !.pc = "refreshing", !.tokenPosts = 1]
                  ELSE refreshFailed(k, t)

\* a request to one of the routes, up to the first await; bodyValid: the
\* body holds what the handler asks for (courseId, file)
endpoint(p, r, bodyValid) ==
  /\ r \in Routes[impl]
  /\ call[p].pc = "idle"
  /\ LET c == Request(r.route, r.op, token, now)
     IN  call' = [call EXCEPT ![p] =
           IF endpointGuard(impl, token, now) = "401" THEN Reject(c, 401)
           ELSE IF r.validated /\ ~bodyValid THEN Reject(c, 400)
           ELSE LET g == gatewayCall(impl, c, token, now)
                IN  IF g.outcome = "threw" THEN endpointAnswer(g) ELSE g]
  /\ UNCHANGED <<impl, now, token>> /\ UNCHANGED nonLmsVars

\* App.js: POST /api/publish-to-brightspace is a stub that calls nothing
\*   res.json({ success: true, message: 'Published to Brightspace' })
publishStub(p) ==
  /\ impl = "BrightspaceContentCreator"
  /\ call[p].pc = "idle"
  /\ call' = [call EXCEPT ![p] =
                Reject(Request("/api/publish-to-brightspace", "none", token, now), 200)]
  /\ UNCHANGED <<impl, now, token>> /\ UNCHANGED nonLmsVars

AllRoutes == UNION {Routes[i] : i \in Impls}

(***************************************************************************)
(* Specification of the LMS clients                                        *)
(***************************************************************************)
LmsParked ==
  /\ impl = "BrightspaceClient" /\ now = 0 /\ token = constructor
  /\ call = [p \in Callers |-> IdleCall]

UrlParked  == urlIn = <<>> /\ urlOut = <<>>
NewsParked == newsIn = <<>> /\ newsOut = <<>>
AmpParked  == amp = <<>>
SrvParked  == srv = <<>>

InitLms ==
  /\ impl \in Impls
  /\ now = 0
  /\ token = constructor
  /\ call = [p \in Callers |-> IdleCall]

Init == InitLms /\ UrlParked /\ NewsParked /\ AmpParked /\ SrvParked

Next ==
  \/ Tick
  \/ \E p \in Callers : exchangeCodeForToken(p)
  \/ \E p \in Callers : exchangeResponse(p)
  \/ \E p \in Callers, o \in ClientOps : apiCall(p, o)
  \/ \E p \in Callers : refreshResponse(p)
  \/ \E p \in Callers, o \in CreatorOps : creatorCall(p, o)
  \/ \E p \in Callers : createNewsItem(p)
  \/ \E p \in Callers, hasCourseId \in BOOLEAN : postCreateAnnouncement(p, hasCourseId)
  \/ \E p \in Callers : lmsResponse(p)
  \/ \E p \in Callers, r \in AllRoutes, bodyValid \in BOOLEAN : endpoint(p, r, bodyValid)
  \/ \E p \in Callers : publishStub(p)

Spec == Init /\ [][Next]_vars

(***************************************************************************)
(* Concurrent calls of one BrightspaceClient (specification SpecRace): the *)
(* server's request handlers share the client, and a handler that awaits   *)
(* lets the next request in.  Every gateway method of the client goes     *)
(* through apiCall; getCourses stands for them.                            *)
(***************************************************************************)
MaxRacers == 2    \* concurrent callers of the shared client

Racers == 1..MaxRacers

InitRace ==
  /\ impl = "BrightspaceClient"
  /\ now = 0
  /\ token = constructor
  /\ call = [p \in Racers |-> IdleCall]
  /\ UrlParked /\ NewsParked /\ AmpParked /\ SrvParked

NextRace ==
  \/ Tick
  \/ \E p \in Racers : exchangeCodeForToken(p)
  \/ \E p \in Racers : exchangeResponse(p)
  \/ \E p \in Racers : apiCall(p, "getCourses")
  \/ \E p \in Racers : refreshResponse(p)
  \/ \E p \in Racers : lmsResponse(p)

SpecRace == InitRace /\ [][NextRace]_vars

(***************************************************************************)
(* getAuthorizationUrl (specification SpecUrl)                             *)
(* Strings are sequences of one-character strings.                         *)
(***************************************************************************)
MaxStateLen == 2    \* longest state string a caller supplies

\* characters a supplied state is made of: a letter, the characters the
\* query syntax gives a meaning to, and two digits (so that "%26" is an input)
StateAlphabet == {"a", " ", "&", "=", "+", "%", "2", "6"}

SeqsUpTo(S, n) == UNION {[1..k -> S] : k \in 0..n}

\* application/x-www-form-urlencoded byte serializer (URLSearchParams.toString):
\* alphanumerics and * - . _ stay, a space becomes "+", the rest is %XX
Unreserved == {"a", "b", "c", "d", "e", "g", "h", "i", "l", "n", "o", "p", "r",
               "s", "t", "u", "y", "_", "-", "0", "1", "2", "6"}

PercentCode(c) ==
  CASE c = "&" -> <<"%", "2", "6">>
    [] c = "=" -> <<"%", "3", "D">>
    [] c = "+" -> <<"%", "2", "B">>
    [] c = "%" -> <<"%", "2", "5">>
    [] c = ":" -> <<"%", "3", "A">>
    [] c = "/" -> <<"%", "2", "F">>

urlencodeByte(c) ==
  IF c = " " THEN <<"+">>
  ELSE IF c \in Unreserved THEN <<c>>
  ELSE PercentCode(c)

RECURSIVE urlencode(_)
urlencode(str) ==
  IF str = <<>> THEN <<>> ELSE urlencodeByte(Head(str)) \o urlencode(Tail(str))

\* URLSearchParams.toString(): name=value pairs joined by "&"
RECURSIVE toString(_)
toString(params) ==
  IF params = <<>> THEN <<>>
  ELSE urlencode(params[1][1]) \o <<"=">> \o urlencode(params[1][2])
       \o (IF Len(params) > 1 THEN <<"&">> ELSE <<>>) \o toString(Tail(params))

\* generateState(): two base-36 fragments of Math.random()
GeneratedStates == {<<"g", "0">>, <<"g", "1">>}

\* `brightspace-content-creator-${Date.now()}`
CreatorStates == {<<"b", "c", "c", "-", "0">>, <<"b", "c", "c", "-", "1">>}

\* the state parameter's name
P_state == <<"s", "t", "a", "t", "e">>

\* the object handed to URLSearchParams: the parameter names, the configured
\* values (BRIGHTSPACE_CLIENT_ID, BRIGHTSPACE_REDIRECT_URI, scopes.join(' '))
\* and the state
AuthParams(st) ==
  LET P_response_type == <<"r", "e", "s", "p", "o", "n", "s", "e", "_", "t", "y", "p", "e">>
      P_client_id     == <<"c", "l", "i", "e", "n", "t", "_", "i", "d">>
      P_redirect_uri  == <<"r", "e", "d", "i", "r", "e", "c", "t", "_", "u", "r", "i">>
      P_scope         == <<"s", "c", "o", "p", "e">>
      V_code          == <<"c", "o", "d", "e">>
      V_clientId      == <<"i", "d">>
      V_redirectUri   == <<"h", ":", "/", "/", "h", "/", "c", "b">>
      V_scopes        == <<"c", ":", "r", " ", "n", ":", "r">>
  IN  << <<P_response_type, V_code>>, <<P_client_id, V_clientId>>,
         <<P_redirect_uri, V_redirectUri>>, <<P_scope, V_scopes>>, <<P_state, st>> >>

\* the query of the URL without URLSearchParams: `...&state=${state}`
clientQuery_interpolated(supplied, state, generated) ==
  toString(SubSeq(AuthParams(<<>>), 1, 4)) \o <<"&">> \o P_state \o <<"=">>
    \o (IF supplied /\ state # <<>> THEN state ELSE generated)

\* BrightspaceClient.getAuthorizationUrl(state = null, scopes):
\*   state: state || this.generateState()
clientQuery(supplied, state, generated) ==
  toString(AuthParams(IF supplied /\ state # <<>> THEN state ELSE generated))

\* BrightspaceContentCreator.getAuthorizationUrl(): no parameter
creatorQuery(own) == toString(AuthParams(own))

InitUrl ==
  /\ LmsParked /\ NewsParked /\ AmpParked /\ SrvParked
  /\ urlIn \in [ impl     : Impls,
                 supplied : BOOLEAN,
                 state    : SeqsUpTo(StateAlphabet, MaxStateLen) ]
  /\ (~urlIn.supplied => urlIn.state = <<>>)
  /\ urlOut = <<>>

getAuthorizationUrl ==
  /\ urlOut = <<>>
  /\ urlIn.impl = "BrightspaceClient"
  /\ \E g \in GeneratedStates :
       urlOut' = [ query     |-> clientQuery(urlIn.supplied, urlIn.state, g),
                   generated |-> g ]
  /\ UNCHANGED urlIn /\ UNCHANGED nonUrlVars

creatorGetAuthorizationUrl ==
  /\ urlOut = <<>>
  /\ urlIn.impl = "BrightspaceContentCreator"
  /\ \E own \in CreatorStates :
       urlOut' = [ query |-> creatorQuery(own), generated |-> own ]
  /\ UNCHANGED urlIn /\ UNCHANGED nonUrlVars

NextUrl ==
  \/ getAuthorizationUrl
  \/ creatorGetAuthorizationUrl

SpecUrl == InitUrl /\ [][NextUrl]_vars

\* --- reading the URL back: new URL(url).searchParams.get(name) ---
HexPairs == { <<"2", "6">>, <<"3", "D">>, <<"2", "B">>, <<"2", "5">>,
              <<"3", "A">>, <<"2", "F">> }

Unhex(h) ==
  CASE h = <<"2", "6">> -> "&"
    [] h = <<"3", "D">> -> "="
    [] h = <<"2", "B">> -> "+"
    [] h = <<"2", "5">> -> "%"
    [] h = <<"3", "A">> -> ":"
    [] h = <<"2", "F">> -> "/"

\* form-urlencoded decoding of one name or value
RECURSIVE urldecode(_)
urldecode(str) ==
  IF str = <<>> THEN <<>>
  ELSE IF Head(str) = "+" THEN <<" ">> \o urldecode(Tail(str))
  ELSE IF Head(str) = "%" /\ Len(str) >= 3 /\ SubSeq(str, 2, 3) \in HexPairs
       THEN <<Unhex(SubSeq(str, 2, 3))>> \o urldecode(SubSeq(str, 4, Len(str)))
  ELSE <<Head(str)>> \o urldecode(Tail(str))

\* position of the first c in str, 0 if none
RECURSIVE IndexOf(_, _, _)
IndexOf(str, c, i) ==
  IF i > Len(str) THEN 0 ELSE IF str[i] = c THEN i ELSE IndexOf(str, c, i + 1)

\* the pairs of a query string, in order, still encoded
RECURSIVE SplitPairs(_)
SplitPairs(q) ==
  LET amp_ == IndexOf(q, "&", 1)
      piece == IF amp_ = 0 THEN q ELSE SubSeq(q, 1, amp_ - 1)
      rest  == IF amp_ = 0 THEN <<>> ELSE SplitPairs(SubSeq(q, amp_ + 1, Len(q)))
      eq    == IndexOf(piece, "=", 1)
      pair  == IF eq = 0 THEN <<piece, <<>>>>
               ELSE <<SubSeq(piece, 1, eq - 1), SubSeq(piece, eq + 1, Len(piece))>>
  IN  IF piece = <<>> THEN rest ELSE <<pair>> \o rest

\* searchParams.get(name): the decoded value of the first pair so named;
\* <<"?">> stands for null (no such parameter)
RECURSIVE GetParam(_, _)
GetParam(pairs, name) ==
  IF pairs = <<>> THEN <<"?">>
  ELSE IF urldecode(pairs[1][1]) = name THEN urldecode(pairs[1][2])
  ELSE GetParam(Tail(pairs), name)

StateCarried == GetParam(SplitPairs(urlOut.query), P_state)

(***************************************************************************)
(* createNewsItem: the multipart request (specification SpecNews)          *)
(* Strings are sequences of atoms; every "-" of a delimiter is an atom.    *)
(***************************************************************************)
MaxTitleLen == 2    \* longest announcement title, in atoms

Stamps == {"0", "1"}    \* Date.now() at the call, as text

CRLF == "\r\n"

\* atoms of a title: a letter, a double quote, a line break
TitleAtoms == {"A", "\"", CRLF}

\* `----formdata-brightspace-${Date.now()}`
Boundary(stamp) == <<"-", "-", "-", "-", "formdata-brightspace-", stamp>>

\* JSON.stringify of a string: quoted, with " and line breaks escaped
jsonEscape(a) ==
  IF a = "\"" THEN <<"\\", "\"">>
  ELSE IF a = CRLF THEN <<"\\r", "\\n">>
  ELSE <<a>>

RECURSIVE jsonString(_)
jsonString(str) ==
  IF str = <<>> THEN <<>> ELSE jsonEscape(Head(str)) \o jsonString(Tail(str))

jsonBool(b) == IF b THEN "true" ELSE "false"

\* JSON.stringify(newsData)
JSONstringify(d) ==
  <<"{", "\"Title\":", "\"">> \o jsonString(d.Title) \o <<"\"", ",",
    "\"IsPublished\":", jsonBool(d.IsPublished), ",",
    "\"IsPinned\":", jsonBool(d.IsPinned), "}">>

\* Array.prototype.join
RECURSIVE join(_, _)
join(parts, sep) ==
  IF parts = <<>> THEN <<>>
  ELSE IF Len(parts) = 1 THEN parts[1]
  ELSE parts[1] \o <<sep>> \o join(Tail(parts), sep)

\* the parts without the empty line that ends the part headers
multipartBody_noBlankLine(boundary, jsonPart) ==
  join(<< <<"-", "-">> \o boundary,
          <<"Content-Type: application/json">>,
          jsonPart,
          <<"-", "-">> \o boundary \o <<"-", "-">> >>, CRLF)

\* [`--${boundary}`, 'Content-Type: application/json', '', jsonPart,
\*  `--${boundary}--`].join('\r\n')
multipartBody(boundary, jsonPart) ==
  join(<< <<"-", "-">> \o boundary,
          <<"Content-Type: application/json">>,
          <<>>,
          jsonPart,
          <<"-", "-">> \o boundary \o <<"-", "-">> >>, CRLF)

InitNews ==
  /\ LmsParked /\ UrlParked /\ AmpParked /\ SrvParked
  /\ newsIn \in [ newsData : [ Title       : SeqsUpTo(TitleAtoms, MaxTitleLen),
                               IsPublished : BOOLEAN,
                               IsPinned    : BOOLEAN ],
                  stamp    : Stamps ]
  /\ newsOut = <<>>

\* createNewsItem up to the axios call: the request as sent
\*   data: multipartBody, 'Content-Type': `multipart/mixed; boundary=${boundary}`
createNewsItemBody ==
  /\ newsOut = <<>>
  /\ LET boundary == Boundary(newsIn.stamp)
         jsonPart == JSONstringify(newsIn.newsData)
     IN  newsOut' = [ data     |-> multipartBody(boundary, jsonPart),
                      boundary |-> boundary ]
  /\ UNCHANGED newsIn /\ UNCHANGED nonNewsVars

NextNews == createNewsItemBody

SpecNews == InitNews /\ [][NextNews]_vars

(***************************************************************************)
(* AmplifyClient.processFiles (specification SpecAmplify)                  *)
(***************************************************************************)
MaxFiles == 2    \* most files handed to one processFiles call

maxRetries == 3

NoHandle == 0

\* what the POST /files/upload of one file can be answered
PostAnswers == {"ok", "http_error", "success_false", "no_upload_url"}
PutAnswers  == {200, 500}

\* response.data of the descriptor POST names the stored file by a key, by
\* an id, or by neither
HandleShapes == {"key", "id", "none"}
uploadResponse(f, shape) ==
  CASE shape = "key"  -> [key |-> 10 + f, id |-> NoHandle]
    [] shape = "id"   -> [key |-> NoHandle, id |-> 20 + f]
    [] shape = "none" -> [key |-> NoHandle, id |-> NoHandle]

\* what the chat endpoint's answer holds, by the checks the client applies:
\*   real              a substantial answer
\*   sentinel          'Chat endpoint response retrieved'
\*   s3error           contains 'Error: Could not fetch data from S3'
\*   still_processing  contains 'Files are still being processed' or
\*                     'Please try again later' (and so is over 20 characters)
\*   empty             '' or no content at all
\*   short             at most 20 characters
ContentKinds == {"real", "sentinel", "s3error", "still_processing", "empty", "short"}
ChatAnswers  == ContentKinds \cup {"request_failed"}

ProcessingTypes == {"educational_content", "syllabus_extraction"}

\* the public methods of AmplifyClient
Methods == {"processFiles", "uploadFileToAmplify", "chatWithAmplify", "extractText",
            "generateEducationalContent", "generateCourseFromSyllabus", "checkApiHealth"}

\* what Date.now(), new Date() and Math.random() can contribute to a response
Nonces == {0, 1}

\* what a method other than processFiles returned: the kind of response, and
\* the part of it drawn from the clock or from Math.random()
NoReturn == [kind |-> "none", nonce |-> 0]

\* before a second call: nothing remembered of a first one
NoFirst == [called |-> FALSE, inputs |-> <<>>, response |-> <<>>]

NoAnalysis == [success |-> FALSE, content |-> "none", mock |-> FALSE]
NoResult   == [success |-> FALSE, method |-> "none", fallback_reason |-> "none"]

\* constructor: mock mode iff AMPLIFY_API_KEY is not set
AmplifyClient(hasApiKey) ==
  [ mockMode       |-> ~hasApiKey,
    pc             |-> "idle",
    method         |-> "none",    \* the method the caller invoked
    byId           |-> FALSE,     \* extractText: files are ids of stored files
    args           |-> <<>>,      \* the method's other arguments
    nonce          |-> 0,         \* what the clock and Math.random() yield in this call
    files          |-> <<>>,      \* the files argument: file numbers 1..N
    readable       |-> <<>>,      \* per file: a buffer or an existing path
    processingType |-> "educational_content",
    i              |-> 0,         \* the file the upload loop is at
    uploadResults  |-> <<>>,
    uploads        |-> <<>>,      \* per file, as the vendor saw it: pending | stored | failed
    handles        |-> <<>>,      \* per file: the handle the vendor answered
    posts          |-> 0,         \* POST /files/upload requests made
    puts           |-> 0,         \* PUTs to a pre-signed URL made
    chats          |-> <<>>,      \* dataSources of every POST /chat made
    answers        |-> <<>>,      \* what every POST /chat was answered
    payloads       |-> <<>>,      \* data of every POST /chat made
    ret            |-> NoReturn,
    health         |-> [available |-> FALSE, mock_mode |-> FALSE],
                                  \* what checkApiHealth returned
    threw          |-> FALSE,     \* the method raised to its caller
    failedCalls    |-> 0,         \* requests to the vendor that did not succeed
    first          |-> NoFirst,   \* the inputs and the response of the call before
    retryCount     |-> 0,
    waited         |-> 0,         \* ms of the wait before the retry under way
    analysisResult |-> NoAnalysis,
    result         |-> NoResult,
    published      |-> "none" ]   \* what POST /api/publish-to-brightspace published

\* mockProcessFiles
mockProcessFiles(files) ==
  [success |-> TRUE, method |-> "mock_processing", fallback_reason |-> "none"]

\* createProcessingResponse + fallback_reason
fallbackResponse(uploadResults) ==
  [success |-> TRUE, method |-> "fallback", fallback_reason |-> "ai_analysis_unavailable"]

\* parseSyllabusEntities / parseAIAnalysisResponse
parseResponse(processingType) ==
  [success |-> TRUE,
   method  |-> IF processingType = "syllabus_extraction"
               THEN "syllabus_entity_extraction" ELSE "live_ai_processing",
   fallback_reason |-> "none"]

Done(a, r) == [a EXCEPT !.pc = "done", !.result = r]

\* catch (error) of processFiles: fall back to mock processing
processFilesCatch(a) == Done(a, mockProcessFiles(a.files))

\* uploadFileToAmplify, step 1: POST the descriptor
postDescriptor(a, f) == [a EXCEPT !.pc = "upload_post", !.i = f, !.posts = @ + 1]

\* after the upload loop
afterUploads(a) ==
  IF Len(a.uploadResults) = 0 THEN processFilesCatch(a)
  ELSE [a EXCEPT !.pc = "indexing"]

\* the for loop moves to the next file, or ends
nextFile(a) ==
  IF a.i < Len(a.files) THEN postDescriptor(a, a.i + 1) ELSE afterUploads(a)

\* options.dataSources && options.dataSources.length > 0 ? false : true
skipRag_absentOnly(given, dataSources) == ~given

\* options.dataSources && options.dataSources.length > 0 ? false : true
skipRag(given, dataSources) == IF given /\ Len(dataSources) > 0 THEN FALSE ELSE TRUE

\* chatWithAmplify's payload.data, for options whose dataSources are given or not:
\*   dataSources: options.dataSources || [],  options: { skipRag: ... }
payload(given, dataSources) ==
  [ given       |-> given,
    dataSources |-> IF given THEN dataSources ELSE <<>>,
    skipRag     |-> skipRag(given, dataSources) ]

\* axios.post(chatUrl, payload, ...)
axiosPostChat(a, given, dataSources) ==
  [a EXCEPT !.payloads = Append(@, payload(given, dataSources))]

Return(a, kind, nonce) == [a EXCEPT !.pc = "done", !.ret = [kind |-> kind, nonce |-> nonce]]

\* mockExtractText: per file, word_count: Math.floor(Math.random() * 1000) + 200
mockExtractText(a) == Return(a, "mock", IF Len(a.files) > 0 THEN a.nonce ELSE 0)

\* extractText's fileIds: the ids given, or the id of every upload result
\* that has one (if (uploadResult && uploadResult.id) fileIds.push(...))
RECURSIVE idsOf(_)
idsOf(uploadResults) ==
  IF uploadResults = <<>> THEN <<>>
  ELSE (IF Head(uploadResults).id # NoHandle THEN <<Head(uploadResults).id>> ELSE <<>>)
       \o idsOf(Tail(uploadResults))

extractFileIds(a) ==
  IF a.byId THEN [f \in 1..Len(a.files) |-> uploadResponse(f, "id").id]
  ELSE idsOf(a.uploadResults)

\* extractText after its upload loop: throw (caught: mockExtractText) if
\* there is no file id, else chatWithAmplify({dataSources: fileIds, ...})
extractChat(a) ==
  IF Len(extractFileIds(a)) = 0 THEN mockExtractText(a)
  ELSE [axiosPostChat(a, TRUE, extractFileIds(a)) EXCEPT !.pc = "await_chat"]

\* extractText's for loop moves to the next file, or ends
extractNext(a) ==
  IF a.i < Len(a.files) THEN postDescriptor(a, a.i + 1) ELSE extractChat(a)

\* the catch answers with a mock upload result
uploadRethrow_mock(a) == Return(a, "mock", 0)

\* uploadFileToAmplify's catch (error): log, then throw error
uploadRethrow(a) == [a EXCEPT !.pc = "done", !.threw = TRUE]

\* an upload step failed: uploadFileToAmplify rethrows, and its caller
\*   processFiles: catch (error) in the loop: log, continue with the other files
\*   extractText:  no catch in the loop: the outer catch returns mockExtractText
uploadCatch(a) ==
  LET failed == [a EXCEPT !.uploads[a.i] = "failed"]
  IN  CASE a.method = "processFiles"        -> nextFile(failed)
        [] a.method = "uploadFileToAmplify" -> uploadRethrow(failed)
        [] a.method = "extractText"         -> mockExtractText(failed)

\* what a call was given, and what it gave its caller
Inputs(a) ==
  [ method |-> a.method, files |-> a.files, readable |-> a.readable,
    processingType |-> a.processingType, byId |-> a.byId, args |-> a.args ]
Response(a) == [result |-> a.result, ret |-> a.ret, threw |-> a.threw, health |-> a.health]

\* a second call is given what the first was given
RepeatsFirst == amp.first.called => Inputs(amp') = amp.first.inputs

\* the mock-mode client is called once more after it returned: the client
\* keeps nothing of a call but its configuration
callAgain ==
  /\ amp # <<>>
  /\ amp.pc = "done"
  /\ amp.mockMode
  /\ ~amp.first.called
  /\ amp' = [AmplifyClient(~amp.mockMode) EXCEPT
               !.first = [called |-> TRUE, inputs |-> Inputs(amp),
                          response |-> Response(amp)]]
  /\ UNCHANGED nonAmpVars

\* a call of a method with its files argument
Call(method, n, rd) ==
  [amp EXCEPT !.method = method,
              !.files = [f \in 1..n |-> f],
              !.readable = rd,
              !.uploads = [f \in 1..n |-> "pending"],
              !.handles = [f \in 1..n |-> NoHandle]]

processFiles(n, pt) ==
  /\ amp # <<>>
  /\ amp.pc = "idle"
  /\ \E rd \in [1..n -> BOOLEAN] :
       LET a == [Call("processFiles", n, rd) EXCEPT
                            !.processingType = pt]
       IN  amp' = IF a.mockMode THEN Done(a, mockProcessFiles(a.files))
                  ELSE IF n = 0 THEN afterUploads(a)
                  ELSE postDescriptor(a, 1)
  /\ RepeatsFirst
  /\ UNCHANGED nonAmpVars

\* the answer to the descriptor POST; step 2 is the PUT of the content
uploadPostAnswer(ans, shape) ==
  /\ amp # <<>>
  /\ amp.pc = "upload_post"
  /\ amp' = IF ans = "ok" /\ amp.readable[amp.i]
            THEN [amp EXCEPT !.pc = "upload_put", !.puts = @ + 1,
                             !.uploads[amp.i] = "described",
                             !.handles[amp.i] = uploadResponse(amp.i, shape)]
            ELSE uploadCatch(IF ans = "ok" THEN amp
                             ELSE [amp EXCEPT !.failedCalls = @ + 1])
  /\ UNCHANGED nonAmpVars

\* uploadFileToAmplify returned uploadResponse to
\*   processFiles: uploadResults.push(uploadResult), then the pacing delay
\*   its caller, for a direct call
\*   extractText:  fileIds.push(uploadResult.id) if it has one, then the next file
uploadReturn(a) ==
  LET stored == [a EXCEPT !.uploads[a.i] = "stored",
                          !.uploadResults = Append(@, a.handles[a.i])]
  IN  CASE a.method = "processFiles"        -> [stored EXCEPT !.pc = "pacing"]
        [] a.method = "uploadFileToAmplify" -> Return(stored, "upload_result", 0)
        [] a.method = "extractText"         -> extractNext(stored)

\* the answer to the PUT
uploadPutAnswer(status) ==
  /\ amp # <<>>
  /\ amp.pc = "upload_put"
  /\ amp' = IF status = 200 THEN uploadReturn(amp)
            ELSE uploadCatch([amp EXCEPT !.failedCalls = @ + 1])
  /\ UNCHANGED nonAmpVars

\* setTimeout(resolve, 1000) between uploads fired
pacingElapsed ==
  /\ amp # <<>>
  /\ amp.pc = "pacing"
  /\ amp' = nextFile(amp)
  /\ UNCHANGED nonAmpVars

\* uploadResults.map(result => result.id).filter(Boolean)
RECURSIVE fileIds_idOnly(_)
fileIds_idOnly(uploadResults) ==
  IF uploadResults = <<>> THEN <<>>
  ELSE (IF Head(uploadResults).id # NoHandle THEN <<Head(uploadResults).id>> ELSE <<>>)
       \o fileIds_idOnly(Tail(uploadResults))

\* uploadResults.map(result => result.key || result.id).filter(Boolean)
RECURSIVE fileIds(_)
fileIds(uploadResults) ==
  IF uploadResults = <<>> THEN <<>>
  ELSE LET r == Head(uploadResults)
           h == IF r.key # NoHandle THEN r.key ELSE r.id
       IN  (IF h # NoHandle THEN <<h>> ELSE <<>>) \o fileIds(Tail(uploadResults))

\* chatWithAmplify({message, dataSources: fileIds, ...}): the POST /chat
postChat(a) ==
  LET ids == fileIds(a.uploadResults)
  IN  [axiosPostChat(a, TRUE, ids) EXCEPT !.pc = "chat", !.chats = Append(@, ids)]

\* the 30 s wait for the vendor to index the files is over
indexingElapsed ==
  /\ amp # <<>>
  /\ amp.pc = "indexing"
  /\ amp' = IF Len(fileIds(amp.uploadResults)) > 0 THEN postChat(amp)
            ELSE Done(amp, fallbackResponse(amp.uploadResults))
  /\ UNCHANGED nonAmpVars

\* chatWithAmplify's return value: the answer, or mockChatResponse in its catch
chatWithAmplify(ans) ==
  IF ans = "request_failed"
  THEN [success |-> TRUE, content |-> "mock_text", mock |-> TRUE]
  ELSE [success |-> TRUE, content |-> ans, mock |-> FALSE]

\* the loop retries whatever the answer
shouldRetry_always(r) == TRUE

\* the S3 error string, a still-processing message, or no content
shouldRetry(r) == r.content \in {"s3error", "still_processing", "empty"}

\* const waitTime = 15000 * retryCount
waitTime(retryCount) == 15000 * retryCount

\* content is a string of more than 20 characters that is not the sentinel
\* and holds none of 'Error: Could not fetch data from S3', 'No content
\* available', 'Unable to process'
hasRealContent(r) == r.content \in {"real", "mock_text", "still_processing"}

\* after the retry loop
finish(a) ==
  IF a.analysisResult.success /\ hasRealContent(a.analysisResult)
  THEN Done(a, parseResponse(a.processingType))
  ELSE Done(a, fallbackResponse(a.uploadResults))

\* the answer to a POST /chat, then the while loop's test
chatAnswer(ans) ==
  /\ amp # <<>>
  /\ amp.pc = "chat"
  /\ LET a == [amp EXCEPT !.analysisResult = chatWithAmplify(ans),
                          !.answers = Append(@, ans),
                          !.failedCalls = IF ans = "request_failed" THEN @ + 1 ELSE @]
     IN  amp' = IF a.retryCount < maxRetries /\ shouldRetry(a.analysisResult)
                THEN [a EXCEPT !.pc = "retry_wait", !.retryCount = @ + 1,
                               !.waited = waitTime(a.retryCount + 1)]
                ELSE finish(a)
  /\ UNCHANGED nonAmpVars

\* the wait of 15000 * retryCount ms is over: chat again
retryElapsed ==
  /\ amp # <<>>
  /\ amp.pc = "retry_wait"
  /\ amp' = postChat(amp)
  /\ UNCHANGED nonAmpVars

\* uploadFileToAmplify(file) called directly
\*   mock mode: mockUploadFile, id: `mock_file_${Date.now()}_${Math.random()...}`
uploadFileToAmplify(rd, nn) ==
  /\ amp # <<>>
  /\ amp.pc = "idle"
  /\ LET a == Call("uploadFileToAmplify", 1, <<rd>>)
     IN  amp' = IF a.mockMode THEN Return([a EXCEPT !.nonce = nn], "mock", nn)
                ELSE postDescriptor(a, 1)
  /\ RepeatsFirst
  /\ UNCHANGED nonAmpVars

\* extractText(files): files are ids of stored files (typeof files[0] ===
\* 'string'), or file objects that are uploaded first
extractText(n, byId, nn) ==
  /\ amp # <<>>
  /\ amp.pc = "idle"
  /\ \E rd \in [1..n -> BOOLEAN] :
       LET a == [Call("extractText", n, rd) EXCEPT
                   !.byId = byId /\ n > 0,
                   !.nonce = IF n > 0 THEN nn ELSE 0]
       IN  amp' = IF a.mockMode THEN mockExtractText(a)
                  ELSE IF a.byId \/ n = 0 THEN extractChat(a)
                  ELSE postDescriptor(a, 1)
  /\ RepeatsFirst
  /\ UNCHANGED nonAmpVars

\* the dataSources option of a direct chatWithAmplify call
DataSourceOptions == {<<>>, <<uploadResponse(1, "id").id>>}

\* chatWithAmplify(options) called directly; mock mode: mockChatResponse
chatWithAmplifyCall(given, dataSources) ==
  /\ amp # <<>>
  /\ amp.pc = "idle"
  /\ LET a == [Call("chatWithAmplify", 0, <<>>) EXCEPT !.args = <<given, dataSources>>]
     IN  amp' = IF a.mockMode THEN Return(a, "mock", 0)
                ELSE [axiosPostChat(a, given, dataSources) EXCEPT !.pc = "await_chat"]
  /\ RepeatsFirst
  /\ UNCHANGED nonAmpVars

\* processedResults.upload_results of generateEducationalContent: absent, or
\* the upload results of an earlier run
UploadResultOptions ==
  {<<>>} \cup {<<uploadResponse(1, shape)>> : shape \in HandleShapes}

\* generateEducationalContent(processedResults, options)
\*   dataSources: upload_results ? upload_results.map(r => r.id).filter(Boolean) : []
generateEducationalContent(upload_results) ==
  /\ amp # <<>>
  /\ amp.pc = "idle"
  /\ LET a == [Call("generateEducationalContent", 0, <<>>) EXCEPT !.args = upload_results]
     IN  amp' = IF a.mockMode THEN Return(a, "mock", 0)
                ELSE [axiosPostChat(a, TRUE, idsOf(upload_results))
                        EXCEPT !.pc = "await_chat"]
  /\ RepeatsFirst
  /\ UNCHANGED nonAmpVars

\* generateCourseFromSyllabus(entities): a chat without dataSources;
\* generated_at: new Date().toISOString() in the mock and in the live response
generateCourseFromSyllabus(nn) ==
  /\ amp # <<>>
  /\ amp.pc = "idle"
  /\ LET a == [Call("generateCourseFromSyllabus", 0, <<>>) EXCEPT !.nonce = nn]
     IN  amp' = IF a.mockMode THEN Return(a, "mock", nn)
                ELSE [axiosPostChat(a, FALSE, <<>>) EXCEPT !.pc = "await_chat"]
  /\ RepeatsFirst
  /\ UNCHANGED nonAmpVars

\* the mock-mode guard of checkApiHealth is left out
checkApiHealthStart_unguarded(a) ==
  [axiosPostChat(a, FALSE, <<>>) EXCEPT !.pc = "await_chat"]

\* checkApiHealth: { available: false, mock_mode: true } in mock mode, else a
\* chat without dataSources
checkApiHealthStart(a) ==
  IF a.mockMode
  THEN Return([a EXCEPT !.health = [available |-> FALSE, mock_mode |-> TRUE]], "mock", 0)
  ELSE [axiosPostChat(a, FALSE, <<>>) EXCEPT !.pc = "await_chat"]

checkApiHealth ==
  /\ amp # <<>>
  /\ amp.pc = "idle"
  /\ amp' = checkApiHealthStart(Call("checkApiHealth", 0, <<>>))
  /\ RepeatsFirst
  /\ UNCHANGED nonAmpVars

\* checkApiHealth's return value: { available: response && response.success, ... }
healthOf(response) == [available |-> response.success, mock_mode |-> FALSE]

\* the one POST /chat of a method other than processFiles is answered:
\* chatWithAmplify returns the answer, or mockChatResponse from its catch
\* (success: true either way), and the method builds its response from it
chatReturn(ans) ==
  /\ amp # <<>>
  /\ amp.pc = "await_chat"
  /\ LET a    == [amp EXCEPT !.answers = Append(@, ans),
                             !.analysisResult = chatWithAmplify(ans),
                             !.failedCalls = IF ans = "request_failed" THEN @ + 1 ELSE @]
         kind == IF ~a.analysisResult.mock THEN "live"
                 ELSE IF a.method = "chatWithAmplify" THEN "mock"
                 ELSE "live_from_mock_chat"
         h    == IF a.method = "checkApiHealth"
                 THEN [a EXCEPT !.health = healthOf(a.analysisResult)]
                 ELSE a
     IN  amp' = Return(h, kind, IF a.method = "generateCourseFromSyllabus"
                                THEN a.nonce ELSE 0)
  /\ UNCHANGED nonAmpVars

\* EnhancedAmplifyServer, POST /api/publish-to-brightspace, for a caller that
\* is authenticated and names a course the LMS knows: createCourseModule
\* answers status 'published' for whatever amplifyResults the body carries;
\* the server keeps nothing of the processing request.  The body carries the
\* result of the run if it has ended, and an object of the caller's otherwise.
publishToBrightspace ==
  /\ amp # <<>>
  /\ amp.published = "none"
  /\ amp' = [amp EXCEPT !.published =
                IF amp.pc = "done" /\ amp.method = "processFiles"
                THEN amp.result.method ELSE "no_analysis"]
  /\ UNCHANGED nonAmpVars

InitAmplify ==
  /\ LmsParked /\ UrlParked /\ NewsParked /\ SrvParked
  /\ amp \in {AmplifyClient(k) : k \in BOOLEAN}

NextAmplify ==
  \/ \E n \in 0..MaxFiles, pt \in ProcessingTypes : processFiles(n, pt)
  \/ \E ans \in PostAnswers, shape \in HandleShapes : uploadPostAnswer(ans, shape)
  \/ \E status \in PutAnswers : uploadPutAnswer(status)
  \/ pacingElapsed
  \/ indexingElapsed
  \/ \E ans \in ChatAnswers : chatAnswer(ans)
  \/ retryElapsed
  \/ \E rd \in BOOLEAN, nn \in Nonces : uploadFileToAmplify(rd, nn)
  \/ \E n \in 0..MaxFiles, byId \in BOOLEAN, nn \in Nonces : extractText(n, byId, nn)
  \/ \E given \in BOOLEAN, ds \in DataSourceOptions : chatWithAmplifyCall(given, ds)
  \/ \E rs \in UploadResultOptions : generateEducationalContent(rs)
  \/ \E nn \in Nonces : generateCourseFromSyllabus(nn)
  \/ checkApiHealth
  \/ \E ans \in ChatAnswers : chatReturn(ans)
  \/ publishToBrightspace
  \/ callAgain

SpecAmplify == InitAmplify /\ [][NextAmplify]_vars

\* every POST /chat is answered or fails (axios timeout: 60000), and the
\* timer of a retry wait fires
SpecAmplifyFair ==
  /\ SpecAmplify
  /\ WF_vars(\E ans \in ChatAnswers : chatAnswer(ans))
  /\ WF_vars(retryElapsed)

(***************************************************************************)
(* EnhancedAmplifyServer: POST /api/process-files (specification           *)
(* SpecIngress).  upload.array('files') stores the files in uploads/ with  *)
(* multer's disk storage before the handler runs; when multer aborts a     *)
(* request it removes the files it stored for it and hands the error to    *)
(* the error-handling middleware.                                          *)
(***************************************************************************)
MaxRequestFiles == 11    \* most files in one request

fileSize == 50    \* limits.fileSize, in MB
files    == 10    \* limits.files

\* the size of each file of a request, in MB
FileSizes == {1, 30, 60}

NoRequest == [n |-> 0, size |-> 0, allowed |-> TRUE, courseContext |-> FALSE]

\* constructor
EnhancedAmplifyServer ==
  [ pc        |-> "listening",  \* listening | aborting | course | processFiles |
                                \* generateEducationalContent | responded
    request   |-> NoRequest,
    stored    |-> 0,            \* files of the request in uploads/
    written   |-> 0,            \* files multer wrote for the request
    error     |-> "none",       \* what multer aborted the request with
    processed |-> FALSE,        \* the files were handed to processFiles
    timer     |-> FALSE,        \* the clean-up timer is pending
    status    |-> 0 ]           \* status of the answer

\* what multer does with the files of a request, in the order they come (the
\* file of a type that is not allowed, if any, comes last): limits.files when
\* one file more than allowed arrives, fileFilter, then the file's size
\* against limits.fileSize while it is written
multer(r) ==
  IF r.n = 0 THEN [error |-> "none", written |-> 0]
  ELSE IF r.n = 1 /\ ~r.allowed THEN [error |-> "FILE_TYPE", written |-> 0]
  ELSE IF r.size > fileSize THEN [error |-> "LIMIT_FILE_SIZE", written |-> 1]
  ELSE IF r.n > files THEN [error |-> "LIMIT_FILE_COUNT", written |-> files]
  ELSE IF ~r.allowed THEN [error |-> "FILE_TYPE", written |-> r.n - 1]
  ELSE [error |-> "none", written |-> r.n]

\* the error-handling middleware
errorMiddleware(error) ==
  IF error \in {"LIMIT_FILE_SIZE", "LIMIT_FILE_COUNT"} THEN 400 ELSE 500

\* a request comes in: multer stores its files, then either aborts or calls
\* the handler, which runs up to its first await
postProcessFiles(n, size, allowed, courseContext) ==
  /\ srv # <<>>
  /\ srv.pc = "listening"
  /\ LET r == [n |-> n, size |-> IF n = 0 THEN 0 ELSE size,
               allowed |-> allowed \/ n = 0, courseContext |-> courseContext /\ n > 0]
         m == multer(r)
         s == [srv EXCEPT !.request = r, !.stored = m.written, !.written = m.written,
                          !.error = m.error]
     IN  srv' = IF m.error # "none" THEN [s EXCEPT !.pc = "aborting"]
                ELSE IF r.n = 0 THEN [s EXCEPT !.pc = "responded", !.status = 400]
                ELSE IF r.courseContext THEN [s EXCEPT !.pc = "course"]
                ELSE [s EXCEPT !.pc = "processFiles", !.processed = TRUE]
  /\ UNCHANGED nonSrvVars

\* multer removed the stored files of the aborted request; the error
\* middleware answers
multerAbort ==
  /\ srv # <<>>
  /\ srv.pc = "aborting"
  /\ srv' = [srv EXCEPT !.pc = "responded", !.stored = 0,
                        !.status = errorMiddleware(srv.error)]
  /\ UNCHANGED nonSrvVars

\* getCourse(courseId) returned or threw (caught: no course context)
courseContextAnswer ==
  /\ srv # <<>>
  /\ srv.pc = "course"
  /\ srv' = [srv EXCEPT !.pc = "processFiles", !.processed = TRUE]
  /\ UNCHANGED nonSrvVars

\* amplifyClient.processFiles returned (it does not reject)
processFilesReturn ==
  /\ srv # <<>>
  /\ srv.pc = "processFiles"
  /\ srv' = [srv EXCEPT !.pc = "generateEducationalContent"]
  /\ UNCHANGED nonSrvVars

\* amplifyClient.generateEducationalContent returned (it does not reject):
\* setTimeout(clean-up, 300000), res.json(combinedResults)
educationalContentReturn ==
  /\ srv # <<>>
  /\ srv.pc = "generateEducationalContent"
  /\ srv' = [srv EXCEPT !.pc = "responded", !.timer = TRUE, !.status = 200]
  /\ UNCHANGED nonSrvVars

\* the timer's callback removes nothing
unlinkFiles_none(s) == s.stored

\* req.files.forEach(file => { if (fs.existsSync(file.path)) fs.unlinkSync(file.path) })
unlinkFiles(s) == 0

\* the clean-up timer fires
cleanupTimer ==
  /\ srv # <<>>
  /\ srv.timer
  /\ srv' = [srv EXCEPT !.timer = FALSE, !.stored = unlinkFiles(srv)]
  /\ UNCHANGED nonSrvVars

InitIngress ==
  /\ LmsParked /\ UrlParked /\ NewsParked /\ AmpParked
  /\ srv = EnhancedAmplifyServer

NextIngress ==
  \/ \E n \in 0..MaxRequestFiles, size \in FileSizes, allowed \in BOOLEAN,
        courseContext \in BOOLEAN : postProcessFiles(n, size, allowed, courseContext)
  \/ multerAbort
  \/ courseContextAnswer
  \/ processFilesReturn
  \/ educationalContentReturn
  \/ cleanupTimer

SpecIngress == InitIngress /\ [][NextIngress]_vars

\* timers fire and awaited calls return: every step of a request is taken
SpecIngressFair ==
  /\ SpecIngress
  /\ WF_vars(multerAbort)
  /\ WF_vars(courseContextAnswer)
  /\ WF_vars(processFilesReturn)
  /\ WF_vars(educationalContentReturn)
  /\ WF_vars(cleanupTimer)

(***************************************************************************)
(* Properties of the LMS clients (specification Spec)                      *)
(***************************************************************************)
IsPrefix(s, t) == Len(s) <= Len(t) /\ s = SubSeq(t, 1, Len(s))

Expired(t, n) == t.accessToken # Null /\ t.tokenExpiry # NoExpiry /\ n >= t.tokenExpiry

\* a successful exchangeCodeForToken completes in this step
ExchangeSucceeds ==
  \E p \in Callers : /\ call[p].pc = "exchanging"
                     /\ call'[p].pc = "idle"
                     /\ call'[p].outcome = "returned"

\* C1: isAuthenticated() is true exactly when an access token is held and
\* now < expires_at (so false before any exchange and false again once
\* now >= expires_at, refreshes included), and it is true in the state that
\* a successful exchangeCodeForToken leaves.
C1_IsAuthenticatedIffTokenLive ==
  /\ [](Truthy(IsAuth(impl, token, now))
          <=> (/\ token.accessToken # Null
               /\ token.tokenExpiry # NoExpiry
               /\ now < token.tokenExpiry))
  /\ [][ExchangeSucceeds => Truthy(IsAuth(impl', token', now'))]_vars

\* C1 witness: a refresh was made and the refreshed token has expired again
C1_Witness ==
  /\ \E p \in Callers : call[p].op \in ClientOps /\ call[p].tokenPosts = 1
                        /\ call[p].status = 200 /\ call[p].pc = "idle"
  /\ Expired(token, now)
  /\ ~Truthy(IsAuth(impl, token, now))

\* C3 (as claimed): every LMS API request is sent only after the token
\* validity check ran in the same gateway call.
C3_EveryRequestChecked ==
  \A p \in Callers : call[p].sent > 0 => call[p].checked

\* C4: a BrightspaceClient call that starts with the access token expired and
\* no refresh token held ends in that step with the no-refresh-token error,
\* having sent no LMS request and no token request.
C4_ExpiredNoRefreshNeverSends ==
  [][\A p \in Callers :
       ( /\ call[p].pc = "idle"
         /\ call'[p] # call[p]
         /\ call'[p].op \in ClientOps
         /\ call'[p].via = "direct"
         /\ impl = "BrightspaceClient"
         /\ Expired(token, now)
         /\ token.refreshToken = Null )
       => ( /\ call'[p].pc = "idle"
            /\ call'[p].outcome = "threw"
            /\ call'[p].error = "NoRefreshToken"
            /\ call'[p].sent = 0
            /\ call'[p].tokenPosts = 0 )]_vars

\* C4 witness: such a call has just failed
C4_Witness ==
  \E p \in Callers : /\ call[p].error = "NoRefreshToken"
                     /\ call[p].sent = 0
                     /\ Expired(token, now)
                     /\ token.refreshToken = Null

\* C5: an exchangeCodeForToken whose token request was answered non-2xx has
\* thrown the error to its caller after exactly one POST to the token endpoint.
C5_ExchangeFailureSurfacedOnce ==
  \A p \in Callers :
    ( /\ call[p].op = "exchangeCodeForToken"
      /\ call[p].status \notin {0, 200} )
    => ( /\ call[p].pc = "idle"
         /\ call[p].outcome = "threw"
         /\ call[p].error = "TokenEndpointError"
         /\ call[p].tokenPosts = 1 )

\* C5 witness: a failed exchange
C5_Witness ==
  \E p \in Callers : /\ call[p].op = "exchangeCodeForToken"
                     /\ call[p].status = 400
                     /\ call[p].outcome = "threw"

\* C7 (as claimed): a createAnnouncement answered 403 by the LMS returns a
\* permission-denied result instead of throwing, and the HTTP endpoint has
\* answered its caller.
C7_Http403ReturnsPermissionDenied ==
  \A p \in Callers :
    ( /\ call[p].op = "createNewsItem"
      /\ call[p].status = 403 )
    => ( /\ call[p].outcome = "returned"
         /\ call[p].error = "PermissionDenied"
         /\ (call[p].via = "http" => call[p].httpStatus # 0) )

(***************************************************************************)
(* Properties of getAuthorizationUrl (specification SpecUrl)               *)
(***************************************************************************)
\* C2 (as claimed): whatever state the caller supplies, the state parameter
\* of the returned URL decodes to that state.
C2_StateRoundTrips ==
  (urlOut # <<>> /\ urlIn.supplied) => StateCarried = urlIn.state

\* C2 (amended): BrightspaceClient.getAuthorizationUrl carries every
\* non-empty supplied state unchanged and replaces an absent or empty one by
\* the generated state; BrightspaceContentCreator.getAuthorizationUrl takes no
\* state and always carries its own generated one.
C2_NonEmptyStateRoundTrips ==
  urlOut # <<>> =>
    StateCarried =
      IF urlIn.impl = "BrightspaceClient" /\ urlIn.supplied /\ urlIn.state # <<>>
      THEN urlIn.state
      ELSE urlOut.generated

\* C2 witness: a supplied state made of query syntax came back unchanged
C2_Witness ==
  /\ urlOut # <<>>
  /\ urlIn.impl = "BrightspaceClient"
  /\ urlIn.state = <<"&", "=">>
  /\ StateCarried = urlIn.state

(***************************************************************************)
(* Properties of the createNewsItem request (specification SpecNews)       *)
(***************************************************************************)
\* C6 (as claimed): the body is exactly {boundary} CRLF
\* 'Content-Type: application/json' CRLF CRLF {json} CRLF {boundary}--, where
\* {boundary} is the boundary the request's Content-Type header declares.
C6_BodyIsBoundaryHeaderJson ==
  newsOut # <<>> =>
    newsOut.data =
      newsOut.boundary \o <<CRLF, "Content-Type: application/json", CRLF, CRLF>>
        \o JSONstringify(newsIn.newsData) \o <<CRLF>>
        \o newsOut.boundary \o <<"-", "-">>

\* C6 (amended): the body is exactly --{boundary} CRLF
\* 'Content-Type: application/json' CRLF CRLF {json} CRLF --{boundary}--:
\* each delimiter is the declared boundary preceded by two hyphens, and
\* nothing else is added.
C6_BodyIsDashBoundaryHeaderJson ==
  newsOut # <<>> =>
    newsOut.data =
      <<"-", "-">> \o newsOut.boundary
        \o <<CRLF, "Content-Type: application/json", CRLF, CRLF>>
        \o JSONstringify(newsIn.newsData) \o <<CRLF>>
        \o <<"-", "-">> \o newsOut.boundary \o <<"-", "-">>

\* C6 witness: a request was built for a title that holds a line break
C6_Witness ==
  /\ newsOut # <<>>
  /\ newsIn.newsData.Title = <<"A", CRLF>>
  /\ Len(newsOut.data) > 2 * Len(newsOut.boundary)

(***************************************************************************)
(* Properties of processFiles (specification SpecAmplify)                  *)
(***************************************************************************)
Live == amp.method = "processFiles" /\ ~amp.mockMode

\* the run reported failure to its caller: it threw (no result) or its
\* result says success: false
ReportsFailure == amp.pc = "done" /\ ~amp.result.success

\* the handle the vendor's answer gave file f: its key, else its id
HandleOf(f) ==
  IF amp.handles[f].key # NoHandle THEN amp.handles[f].key ELSE amp.handles[f].id

\* the files the vendor stored, in upload order, from file f on
RECURSIVE StoredFrom(_)
StoredFrom(f) ==
  IF f > Len(amp.files) THEN <<>>
  ELSE (IF amp.uploads[f] = "stored" THEN <<f>> ELSE <<>>) \o StoredFrom(f + 1)

\* of the files in fs, those whose answer carried a handle
RECURSIVE Named(_)
Named(fs) ==
  IF fs = <<>> THEN <<>>
  ELSE (IF HandleOf(Head(fs)) # NoHandle THEN <<Head(fs)>> ELSE <<>>) \o Named(Tail(fs))

HandlesOf(fs) == [k \in 1..Len(fs) |-> HandleOf(fs[k])]

NumFailed == Cardinality({f \in 1..Len(amp.files) : amp.uploads[f] = "failed"})

PastUploads == amp.pc \in {"indexing", "chat", "retry_wait", "done"}
PastIndexing == amp.pc \in {"chat", "retry_wait", "done"}

\* C8 (as claimed): processFiles([]) fails with a validation error and makes
\* no upstream call, in live and in mock mode.
C8_EmptyListFailsFast ==
  (amp.method = "processFiles" /\ amp.pc = "done" /\ amp.files = <<>>)
    => (ReportsFailure /\ amp.posts = 0 /\ amp.puts = 0 /\ amp.chats = <<>>)

C10_AllUploadsFailedReportsFailure ==
  (Live /\ amp.pc = "done" /\ Len(amp.files) >= 1 /\ amp.uploadResults = <<>>)
    => (ReportsFailure /\ amp.chats = <<>>)

\* the result was parsed from the chat's answer (parseAIAnalysisResponse or
\* parseSyllabusEntities), as opposed to the fallback or the mock result
ParsedResult == amp.result.method \in {"live_ai_processing", "syllabus_entity_extraction"}

\* C11 (as claimed): against a chat that answers the sentinel twice and then
\* real content, a finished live run made three chat calls (two retries) and
\* returned the result parsed from the real content.
C11_SentinelRetriedTwice ==
  (Live /\ amp.pc = "done" /\ amp.answers # <<>>
        /\ IsPrefix(amp.answers, <<"sentinel", "sentinel", "real">>))
    => /\ amp.answers = <<"sentinel", "sentinel", "real">>
       /\ Len(amp.chats) = 3
       /\ amp.retryCount = 2
       /\ ParsedResult

\* the answers the retry loop takes as "not ready"
NotReady == {"s3error", "still_processing", "empty", "sentinel"}

\* C12 (as claimed): a live run that used up its retries and whose last chat
\* answer is still a not-ready one returns the fallback response, marked with
\* a fallback reason, and does not parse that answer as an analysis.
C12_ExhaustedRetriesFallBack ==
  (Live /\ amp.pc = "done" /\ amp.answers # <<>>
        /\ amp.retryCount = maxRetries
        /\ amp.answers[Len(amp.answers)] \in NotReady)
    => /\ amp.result.success
       /\ amp.result.method = "fallback"
       /\ amp.result.fallback_reason = "ai_analysis_unavailable"
       /\ ~ParsedResult

\* C21: a live processFiles run makes at most 4 analysis chats (the first and
\* at most 3 retries); a retry is made only after a not-ready answer, and the
\* wait before the k-th retry is 15 s x k; the retry loop is always left.
C21_RetryLoopBoundedWithLinearBackoff ==
  /\ [](Live =>
          /\ Len(amp.chats) <= 4
          /\ amp.retryCount <= 3
          /\ Len(amp.chats) <= amp.retryCount + 1
          /\ amp.pc = "retry_wait" =>
               /\ amp.answers[Len(amp.answers)] \in NotReady
               /\ amp.waited = 15000 * amp.retryCount
               /\ Len(amp.chats) = amp.retryCount)
  /\ [][(Live /\ Len(amp'.chats) > Len(amp.chats) /\ Len(amp.chats) >= 1)
          => (amp.pc = "retry_wait" /\ Len(amp'.chats) = Len(amp.chats) + 1
              /\ amp.waited \in {15000, 30000, 45000})]_vars
  /\ ((Live /\ amp.pc \in {"chat", "retry_wait"}) ~> (amp.pc = "done"))

\* C21 witness: a run ended after its third retry, the last wait being 45 s
C21_Witness ==
  /\ Live /\ amp.pc = "done"
  /\ Len(amp.chats) = 4
  /\ amp.retryCount = 3
  /\ amp.waited = 45000

\* C23 (as claimed): in a live processFiles run the upload of a file starts
\* only when every earlier file's upload has finished (stored or failed) and
\* no later one has started, and every upload after the first starts at the
\* end of a pacing delay, whether the upload before it succeeded or failed.
C23_UploadsOneAtATimeWithPacing ==
  /\ [](Live => \A f \in 1..Len(amp.files) :
                   /\ f < amp.i => amp.uploads[f] \in {"stored", "failed"}
                   /\ f > amp.i => amp.uploads[f] = "pending")
  /\ [][(Live /\ amp'.posts > amp.posts /\ amp.posts >= 1)
          => amp.pc = "pacing"]_vars

(***************************************************************************)
(* Properties of the AmplifyClient methods (specification SpecAmplify)     *)
(***************************************************************************)
NoNetwork == amp.posts = 0 /\ amp.puts = 0 /\ amp.payloads = <<>> /\ amp.chats = <<>>

\* C13: in mock mode no method issues a request to the vendor, and each
\* returns, in the step it is called in, its synthetic response.
C13_MockModeMakesNoRequest ==
  amp.mockMode
    => /\ NoNetwork
       /\ amp.pc \in {"idle", "done"}
       /\ amp.pc = "done" =>
            /\ ~amp.threw
            /\ amp.method \in Methods
            /\ IF amp.method = "processFiles"
               THEN amp.result.method = "mock_processing"
               ELSE amp.ret.kind = "mock"

\* C13 witness: checkApiHealth has returned in mock mode
C13_Witness ==
  amp.mockMode /\ amp.pc = "done" /\ amp.method = "checkApiHealth" /\ amp.ret.kind = "mock"

DirectUpload == amp.method = "uploadFileToAmplify" /\ ~amp.mockMode

C16_FailedCallFallsBackToMock ==
  (~amp.mockMode /\ amp.pc = "done" /\ amp.failedCalls > 0)
    => /\ ~amp.threw
       /\ amp.method # "processFiles"
            => amp.ret.kind \in {"mock", "live_from_mock_chat"}

\* C20: in every chat request sent, options.skipRag is true exactly when the
\* call's dataSources option was absent or empty.
C20_SkipRagIffNoDataSources ==
  \A k \in 1..Len(amp.payloads) :
    amp.payloads[k].skipRag
      <=> (~amp.payloads[k].given \/ amp.payloads[k].dataSources = <<>>)

\* C20 witness: a chat request was sent for a call whose dataSources option
\* was given and empty
C20_Witness ==
  \E k \in 1..Len(amp.payloads) :
    /\ amp.payloads[k].given
    /\ amp.payloads[k].dataSources = <<>>
    /\ amp.payloads[k].skipRag

\* C26 (as claimed): every chat a live method makes over files uploaded
\* earlier in the operation carries as dataSources the handle (key, else id)
\* of each stored file that was given one, in upload order, and nothing else:
\* the chats of processFiles, the chat of extractText over files it uploaded,
\* and the chat of generateEducationalContent over the upload results it is
\* handed.
C26_ChatsCarryEveryUploadedHandle ==
  LET handle(r) == IF r.key # NoHandle THEN r.key ELSE r.id
      given     == [k \in 1..Len(amp.args) |-> handle(amp.args[k])]
      expected  == IF amp.method = "generateEducationalContent"
                   THEN IF \A k \in 1..Len(given) : given[k] # NoHandle
                        THEN given ELSE <<>>
                   ELSE HandlesOf(Named(StoredFrom(1)))
  IN  ( /\ ~amp.mockMode
        /\ \/ amp.method = "processFiles"
           \/ amp.method = "extractText" /\ ~amp.byId
           \/ amp.method = "generateEducationalContent" )
      => \A k \in 1..Len(amp.payloads) : amp.payloads[k].dataSources = expected

\* C27 (as claimed): a live processFiles run returns a result parsed as real
\* AI analysis only if its last chat request was answered by the vendor; the
\* response chatWithAmplify substitutes for a failed request is never parsed.
C27_ParsedOnlyFromVendorAnswer ==
  (Live /\ amp.pc = "done" /\ ParsedResult)
    => /\ amp.answers # <<>>
       /\ amp.answers[Len(amp.answers)] # "request_failed"
       /\ ~amp.analysisResult.mock

\* C29 (as claimed): a live checkApiHealth reports available = true only if
\* its chat request was answered successfully, and available = false whenever
\* that request failed.
C29_AvailableIffChatAnswered ==
  (~amp.mockMode /\ amp.method = "checkApiHealth" /\ amp.pc = "done")
    => /\ amp.health.available =>
            (amp.answers # <<>> /\ amp.answers[Len(amp.answers)] # "request_failed")
       /\ amp.failedCalls > 0 => ~amp.health.available

\* C25 (as claimed): in a live processing request no analysis result (parsed
\* or fallback, or any other successful result) is produced unless a file
\* reached Uploaded; the analysis chat is under way only over files that
\* reached Uploaded; and what is published is the analysis result of a run
\* that has ended.
C25_FileJourneyFollowsStateMachine ==
  /\ (Live /\ amp.pc = "done" /\ amp.result.success) => StoredFrom(1) # <<>>
  /\ (Live /\ amp.chats # <<>>)
       => /\ StoredFrom(1) # <<>>
          /\ \A k \in 1..Len(amp.chats) : amp.chats[k] = HandlesOf(Named(StoredFrom(1)))
  /\ (amp.published # "none" /\ ~amp.mockMode)
       => amp.published \in {"live_ai_processing", "syllabus_entity_extraction", "fallback"}

\* C14 (as claimed): in mock mode a second call of a method with the inputs
\* of the first returns a response equal to the first's.
C14_MockModeIsDeterministic ==
  (amp.mockMode /\ amp.pc = "done" /\ amp.first.called)
    => Response(amp) = amp.first.response

C28_TokenStateChangesOnlyOnSuccess ==
  [][ /\ token' # token =>
           \E p \in Callers : /\ call[p].pc \in {"exchanging", "refreshing"}
                               /\ call'[p] # call[p]
                               /\ call'[p].status = 200
                               /\ call'[p].outcome # "threw"
      /\ \A p \in Callers :
           (call'[p] # call[p] /\ call'[p].outcome = "threw") => token' = token
      /\ \A p \in Callers :
           (call[p].pc = "refreshing" /\ call'[p] # call[p])
             => token'.refreshToken = token.refreshToken ]_vars

\* C28 witness: a refresh was answered non-2xx while a token was held
C28_Witness ==
  \E p \in Callers :
    /\ call[p].op \in ClientOps
    /\ call[p].tokenPosts = 1
    /\ call[p].status = 400
    /\ call[p].outcome = "threw"
    /\ token.accessToken # Null
    /\ token.refreshToken # Null

\* C30 (as claimed): whenever a call sends an LMS request that carries the
\* access token, the token's expiry has not passed at that moment.
C30_NoRequestCarriesExpiredToken ==
  [][\A p \in Callers :
       ( /\ call'[p] # call[p]
         /\ call'[p].pc = "requesting"
         /\ call'[p].bearer # Null )
       => ~Expired(token', now')]_vars

\* C24: a call that finds the token expired posts a refresh of its own
\* whether or not another call's refresh is under way, and a refresh answered
\* 2xx writes its token over whatever is held, so that the call goes on with
\* the token it wrote.
C24_NoRefreshGuard ==
  [][\A p \in Racers :
       /\ ( /\ call[p].pc = "idle"
            /\ call'[p] # call[p]
            /\ call'[p].op \in ClientOps
            /\ Expired(token, now)
            /\ token.refreshToken # Null )
          => (call'[p].pc = "refreshing" /\ call'[p].tokenPosts = 1)
       /\ ( /\ call[p].pc = "refreshing"
            /\ call'[p] # call[p]
            /\ call'[p].status = 200 )
          => /\ token'.accessToken = call'[p].bearer
             /\ token'.tokenExpiry > now
             /\ call'[p].pc = "requesting"]_vars

\* C24 witness: the refreshes of two calls are in flight for the same expiry
C24_Witness ==
  /\ Expired(token, now)
  /\ \E p, q \in Racers : /\ p # q
                            /\ call[p].pc = "refreshing"
                            /\ call[q].pc = "refreshing"

UploadToCourse(c) == c.op = "uploadFileToCourse"

\* C22 (amended): uploadFileToCourse sends POST upload, PUT, POST finalize in
\* that order; each later step is sent only in the step in which the one
\* before it was answered with success; a step that is rejected, or the token
\* being no longer valid when finalize is due, raises with nothing more sent
\* (no later step, no clean-up request); it returns only after all three.
C22_UploadToCourseIsThreeOrderedSteps ==
  /\ [](\A p \in Callers : UploadToCourse(call[p]) =>
          /\ IsPrefix(call[p].wire, <<"POST upload", "PUT", "POST finalize">>)
          /\ call[p].sent = Len(call[p].wire)
          /\ call[p].outcome = "returned" => Len(call[p].wire) = 3
          /\ call[p].outcome = "threw" => call[p].pc = "idle")
  /\ [][\A p \in Callers :
          (UploadToCourse(call[p]) /\ UploadToCourse(call'[p]) /\ call'[p] # call[p]
             /\ call[p].pc = "requesting")
          => /\ Len(call'[p].wire) > Len(call[p].wire)
                  => /\ call'[p].status = 200
                     /\ Len(call'[p].wire) = Len(call[p].wire) + 1
             /\ call'[p].status # 200
                  => (call'[p].outcome = "threw" /\ call'[p].wire = call[p].wire)
             /\ ( /\ Len(call[p].wire) = 2
                  /\ ~Truthy(creatorIsAuthenticated(token, now)) )
                  => (call'[p].outcome = "threw" /\ call'[p].wire = call[p].wire)]_vars

\* C22 (as claimed): the three steps are ordered as above, and none of the
\* three is sent at a moment when the token is no longer valid: the call
\* raises at that step instead.
C22_NoStepSentWithInvalidToken ==
  /\ C22_UploadToCourseIsThreeOrderedSteps
  /\ [][\A p \in Callers :
          ( /\ UploadToCourse(call'[p])
            /\ call'[p] # call[p]
            /\ call'[p].pc = "requesting" )
          => Truthy(creatorIsAuthenticated(token, now))]_vars

\* C22 witness: the token expired while the PUT was under way, and the call
\* raised without sending finalize
C22_Witness ==
  \E p \in Callers :
    /\ UploadToCourse(call[p])
    /\ call[p].wire = <<"POST upload", "PUT">>
    /\ call[p].status = 200
    /\ call[p].outcome = "threw"
    /\ call[p].error = "NotAuthenticated"

(***************************************************************************)
(* Properties of POST /api/process-files (SpecIngress, SpecIngressFair)    *)
(***************************************************************************)
\* C18 (as claimed): a request whose files are processed carries at most 10
\* files and at most 50 MB in total, and a request over either limit is
\* answered 400 (once answered) with none of its files processed.
C18_AcceptedWithinCountAndTotalSize ==
  LET total     == srv.request.n * srv.request.size
      overLimit == srv.request.n > 10 \/ total > 50
  IN  /\ srv.processed => ~overLimit
      /\ (overLimit /\ srv.pc = "responded") => (srv.status = 400 /\ ~srv.processed)

====
